---- MODULE Spec2Model ----
(***************************************************************************)
(* py-llll (src/llll.py): a LINQ-like list processing library.             *)
(*                                                                         *)
(* The model is a small heap of Python objects (lists, list iterators,     *)
(* generator objects, OrderedSequence objects), the iterator protocol on   *)
(* that heap (iter / next), the lazy operators, which only build objects,  *)
(* and the terminal reducers, each run one for-loop iteration at a time.   *)
(*                                                                         *)
(* Python values are integers: n >= 0 is the int n, and n < 0 is an empty  *)
(* list object whose identity is n (every empty list equals every other,   *)
(* `==`, and is identical only to itself, `is`).                           *)
(***************************************************************************)
EXTENDS Integers, Sequences, FiniteSets, TLC

\* heap  the objects; heap[1] is the source
\* cur   the chain value: the object the next operator is attached to
\* hist  the lazy operators attached so far, each <<name, argument>>
\* err   the exception an attachment raised, or ""
\* outs  the tuples the full traversals of the chain value gave
\* red   the frame of the terminal reducer
VARIABLES heap, cur, hist, err, outs, red

vars == <<heap, cur, hist, err, outs, red>>

-----------------------------------------------------------------------------
(* Bounds of the model.                                                    *)

\* longest source list of the chain specification
MaxLen == 2
\* longest source list of the ordering specification
MaxSortLen == 3
\* longest source list of the reducer specification
MaxRedLen == 3
\* most operators attached to one source
MaxChain == 2
\* most keys of one Ordered View (order_by and its then_by's)
MaxKeys == 3
\* full traversals of one chain value
MaxTraversals == 2
\* largest count given to skip and take in the chain specification
MaxSkip == 1
\* largest count given to take and repeat, largest index of element_at
MaxCount == 2
\* most elements a reducer collects from an unbounded producer
MaxCollect == 4

\* elements of the sources of the chain and ordering specifications
Values == {0, 1, 2}
\* elements of the sources of the reducer specification: a falsy int, an
\* int, and an empty list
RedValues == {0, 1, -1}

RECURSIVE SeqsUpTo(_, _)
SeqsUpTo(S, n) ==
  IF n = 0 THEN {<<>>}
  ELSE LET shorter == SeqsUpTo(S, n - 1)
       IN  shorter \cup {Append(s, x) : s \in {t \in shorter : Len(t) = n - 1}, x \in S}

-----------------------------------------------------------------------------
(* Python values, the callables handed to the operators, and keys.         *)

\* a == b
PyEq(a, b) == (a = b) \/ (a < 0 /\ b < 0)

\* a is b
PyIs(a, b) == a = b

\* the predicates the model hands to the reducers, and to where
Preds == {"true", "positive", "falsy"}
ChainPreds == {"positive", "falsy"}
ChainKeyFns == {"mod2"}

Pred(p, x) ==
  CASE p = "true"     -> TRUE
    [] p = "positive" -> x > 0
    [] p = "falsy"    -> x <= 0

\* the projection handed to select
Fn(f, x) == x + 1

\* the key functions handed to order_by and then_by
KeyFns == {"mod2", "neg", "half"}
\* the key and value functions handed to to_dict: bool(x), and a code that
\* tells all elements apart
DictFns == {"bool", "code"}

Key(k, x) ==
  CASE k = "mod2" -> x % 2
    [] k = "neg"  -> 0 - x
    [] k = "half" -> x \div 2
    [] k = "bool" -> IF x > 0 THEN 1 ELSE 0
    [] k = "code" -> x + 1

\* A key function is <<0, k>>, the callable k, or <<1, f, g>>, then_by's
\* lambda x: (f(x), g(x)).  A key is <<0, n>>, the int n, or <<1, a, b>>, the
\* tuple (a, b).
RECURSIVE key_from_x(_, _)
key_from_x(kf, x) ==
  IF kf[1] = 0 THEN <<0, Key(kf[2], x)>>
  ELSE <<1, key_from_x(kf[2], x), key_from_x(kf[3], x)>>

\* a == b on keys: ints by value, tuples item by item
RECURSIVE KeyEq(_, _)
KeyEq(a, b) ==
  IF a[1] = 0 THEN a[2] = b[2]
  ELSE KeyEq(a[2], b[2]) /\ KeyEq(a[3], b[3])

\* a < b on keys: tuples compare by their first unequal items
RECURSIVE KeyLess(_, _)
KeyLess(a, b) ==
  IF a[1] = 0 THEN a[2] < b[2]
  ELSE IF KeyEq(a[2], b[2]) THEN KeyLess(a[3], b[3])
       ELSE KeyLess(a[2], b[2])

\* Insert with the new element put before its equals: a sort that is not stable
RECURSIVE InsertBeforeEquals(_, _, _)
InsertBeforeEquals(sorted, x, kf) ==
  IF sorted = <<>> THEN <<x>>
  ELSE IF ~KeyLess(key_from_x(kf, Head(sorted)), key_from_x(kf, x))
       THEN <<x>> \o sorted
       ELSE <<Head(sorted)>> \o InsertBeforeEquals(Tail(sorted), x, kf)

\* list.sort(key = kf): a stable sort that compares keys with < alone; the
\* insertion of x goes before the first element whose key is greater
RECURSIVE Insert(_, _, _)
Insert(sorted, x, kf) ==
  IF sorted = <<>> THEN <<x>>
  ELSE IF KeyLess(key_from_x(kf, x), key_from_x(kf, Head(sorted)))
       THEN <<x>> \o sorted
       ELSE <<Head(sorted)>> \o Insert(Tail(sorted), x, kf)

RECURSIVE sort(_, _)
sort(xsd, kf) ==
  IF xsd = <<>> THEN <<>>
  ELSE Insert(sort(SubSeq(xsd, 1, Len(xsd) - 1), kf), xsd[Len(xsd)], kf)

RECURSIVE reversed(_)
reversed(s) == IF s = <<>> THEN <<>> ELSE Append(reversed(Tail(s)), Head(s))

-----------------------------------------------------------------------------
(* The heap.  Every object is a record of the same shape:                  *)
(*   kind   "list", "listiter", "gen" (a generator object) or "ordered"    *)
(*          (an OrderedSequence)                                           *)
(*   op     the generator function of a generator object                   *)
(*   xs     the object's source: a heap index, or 0                        *)
(*   it     the iterator a running generator holds over xs, or 0           *)
(*   st     "fresh", "running", "tail" or "done"                           *)
(*   items  a list's elements                                              *)
(*   pos    a list iterator's position                                     *)
(*   fn     the predicate or projection                                    *)
(*   n      the count of skip, take and repeat                             *)
(*   val    the default value of default_if_empty, the element of repeat   *)
(*   key    the key function of an OrderedSequence                         *)
(*   i      a generator's counter; for a list, the elements its iterators  *)
(*          have handed out so far                                         *)
(*   flag   a generator's boolean (has_value; for repeat, n is None)       *)
(*   seen   distinct's yielded_table                                       *)

Obj(kind, op, xs) ==
  [kind |-> kind, op |-> op, xs |-> xs, it |-> 0, st |-> "fresh",
   items |-> <<>>, pos |-> 0, fn |-> "", n |-> 0, val |-> 0, key |-> <<>>,
   i |-> 0, flag |-> FALSE, seen |-> {}]

List(items) == [Obj("list", "", 0) EXCEPT !.items = items]

\* iter(h[r]): a list gives a new list iterator, an OrderedSequence a new
\* generator object running __iter__, an iterator itself
iter(h, r) ==
  CASE h[r].kind = "list" ->
         [h |-> Append(h, Obj("listiter", "", r)), it |-> Len(h) + 1]
    [] h[r].kind = "ordered" ->
         [h |-> Append(h, [Obj("gen", "OrderedSequence.__iter__", h[r].xs)
                             EXCEPT !.key = h[r].key]),
          it |-> Len(h) + 1]
    [] OTHER -> [h |-> h, it |-> r]

\* what next gives: the heap after the call, and the element (val), or
\* StopIteration (stop), or nothing at all, because the call never returns
\* (spin)
Yield(h, v) == [h |-> h, stop |-> FALSE, val |-> v, spin |-> FALSE]
Stopped(h) == [h |-> h, stop |-> TRUE, val |-> 0, spin |-> FALSE]
StopIteration(h, r) == Stopped([h EXCEPT ![r].st = "done"])
Spin(h) == [h |-> h, stop |-> FALSE, val |-> 0, spin |-> TRUE]

\* repeat(x) with no count: `while True: yield x`
Unbounded(h, r) == r # 0 /\ h[r].kind = "gen" /\ h[r].op = "repeat" /\ h[r].flag

\* where's loop over repeat(x) never reaches a yield when x fails the
\* predicate
Spins(h, r) ==
  /\ h[r].op = "where"
  /\ Unbounded(h, h[r].xs)
  /\ ~Pred(h[r].fn, h[h[r].xs].val)

RECURSIVE next(_, _)
RECURSIVE Exhaust(_, _, _)

\* the elements left in iterator it, pulled until it stops
Exhaust(h, it, acc) ==
  LET e == next(h, it)
  IN  IF e.stop THEN [h |-> e.h, out |-> acc]
      ELSE Exhaust(e.h, it, Append(acc, e.val))

\* xs | to_list(): list(xs)
to_list(h, r) ==
  LET s == iter(h, r) IN Exhaust(s.h, s.it, <<>>)

\* OrderedSequence.__iter__, up to its loop: the source is copied and sorted
OrderedSequenceIter(h, r) ==
  LET xsd == to_list(h, h[r].xs)
  IN  [xsd.h EXCEPT ![r].items = sort(xsd.out, h[r].key), ![r].st = "running"]

\* The generator functions with a loop `for x in xs`, each from the pull e
\* of its source's next element to its next yield or its end.

where_gen(h, r, e) ==
  IF Spins(h, r) THEN Spin(h)
  ELSE IF e.stop THEN StopIteration(e.h, r)
  ELSE IF Pred(h[r].fn, e.val) THEN Yield(e.h, e.val)
  ELSE next(e.h, r)

select_gen(h, r, e) ==
  IF e.stop THEN StopIteration(e.h, r)
  ELSE Yield(e.h, Fn(h[r].fn, e.val))

skip_gen(h, r, e) ==
  IF e.stop THEN StopIteration(e.h, r)
  ELSE IF h[r].n <= h[r].i THEN Yield([e.h EXCEPT ![r].i = @ + 1], e.val)
  ELSE next([e.h EXCEPT ![r].i = @ + 1], r)

\* take that lets one element more through
take_gen_one_more(h, r, e) ==
  IF e.stop THEN StopIteration(e.h, r)
  ELSE IF h[r].i <= h[r].n THEN Yield([e.h EXCEPT ![r].i = @ + 1], e.val)
  ELSE StopIteration(e.h, r)

take_gen(h, r, e) ==
  IF e.stop THEN StopIteration(e.h, r)
  ELSE IF h[r].i < h[r].n THEN Yield([e.h EXCEPT ![r].i = @ + 1], e.val)
  ELSE StopIteration(e.h, r)

distinct_gen(h, r, e) ==
  IF e.stop THEN StopIteration(e.h, r)
  ELSE IF e.val \in h[r].seen THEN next(e.h, r)
  ELSE Yield([e.h EXCEPT ![r].seen = @ \cup {e.val}], e.val)

default_if_empty_gen(h, r, e) ==
  IF e.stop
  THEN IF h[r].flag THEN StopIteration(e.h, r)
       ELSE Yield([e.h EXCEPT ![r].st = "tail"], h[r].val)
  ELSE Yield([e.h EXCEPT ![r].flag = TRUE], e.val)

repeat_gen(h, r) ==
  IF h[r].flag THEN Yield(h, h[r].val)
  ELSE IF h[r].i < h[r].n THEN Yield([h EXCEPT ![r].i = @ + 1], h[r].val)
  ELSE StopIteration(h, r)

\* OrderedSequence.__iter__: on the first call the source is copied and
\* sorted; every call yields the next element of the sorted copy
OrderedSequence_iter(h, r) ==
  LET h1 == IF h[r].st = "fresh" THEN OrderedSequenceIter(h, r) ELSE h IN
  IF h1[r].pos < Len(h1[r].items)
  THEN Yield([h1 EXCEPT ![r].pos = @ + 1], h1[r].items[h1[r].pos + 1])
  ELSE StopIteration(h1, r)

\* next of a list iterator (of a list of the heap, or reversed's own)
listiter_next(h, r) ==
  LET o == h[r]
      items == IF o.xs = 0 THEN o.items ELSE h[o.xs].items
  IN  IF o.pos < Len(items)
      THEN Yield(IF o.xs = 0 THEN [h EXCEPT ![r].pos = @ + 1]
                 ELSE [h EXCEPT ![r].pos = @ + 1, ![o.xs].i = @ + 1],
                 items[o.pos + 1])
      ELSE Stopped(h)

\* next(h[r]): a generator that has ended stays ended; one with a loop
\* takes iter(xs) on its first call and then pulls from that iterator
next(h, r) ==
  LET o == h[r] IN
  IF o.kind = "listiter" THEN listiter_next(h, r)
  ELSE IF o.st = "done" THEN Stopped(h)
  ELSE IF o.st = "tail" THEN StopIteration(h, r)
  ELSE IF o.op = "repeat" THEN repeat_gen(h, r)
  ELSE IF o.op = "OrderedSequence.__iter__" THEN OrderedSequence_iter(h, r)
  ELSE
    LET s  == IF o.st = "fresh" THEN iter(h, o.xs) ELSE [h |-> h, it |-> o.it]
        h1 == [s.h EXCEPT ![r].it = s.it, ![r].st = "running"]
        e  == next(h1, s.it)
    IN
    CASE o.op = "where" -> where_gen(h1, r, e)
      [] o.op = "select" -> select_gen(h1, r, e)
      [] o.op = "skip" -> skip_gen(h1, r, e)
      [] o.op = "take" -> take_gen(h1, r, e)
      [] o.op = "distinct" -> distinct_gen(h1, r, e)
      [] o.op = "default_if_empty" -> default_if_empty_gen(h1, r, e)

-----------------------------------------------------------------------------
(* The lazy operators.  `xs | op(...)` is Query.__ror__, which calls the   *)
(* operator's function on xs; a generator function returns a generator     *)
(* object without running any of its body.                                 *)

Frame(op) ==
  [pc |-> "loop", op |-> op, strict |-> "", it |-> 0, fn |-> "true",
   the_x |-> 0, default_value |-> 0, index |-> 0, key |-> "", vfn |-> "",
   i |-> 0, value |-> 0, out |-> <<>>, d |-> <<>>, calls |-> <<>>,
   result |-> 0, truth |-> FALSE, exc |-> ""]

NoFrame == [Frame("") EXCEPT !.pc = "idle"]

Idle == err = "" /\ outs = <<>> /\ red.pc = "idle"

Attach(h, o, name, arg) ==
  /\ heap' = Append(h, o)
  /\ cur' = Len(h) + 1
  /\ hist' = Append(hist, <<name, arg>>)
  /\ UNCHANGED <<err, outs, red>>

Generator(op) == Obj("gen", op, cur)

where ==
  /\ Idle
  /\ \E p \in ChainPreds :
       Attach(heap, [Generator("where") EXCEPT !.fn = p], "where", p)

select ==
  /\ Idle
  /\ Attach(heap, [Generator("select") EXCEPT !.fn = "succ"], "select", "succ")

skip ==
  /\ Idle
  /\ \E n \in 1..MaxSkip :
       Attach(heap, [Generator("skip") EXCEPT !.n = n], "skip", n)

take(N) ==
  /\ Idle
  /\ \E n \in N :
       Attach(heap, [Generator("take") EXCEPT !.n = n], "take", n)

distinct ==
  /\ Idle
  /\ Attach(heap, Generator("distinct"), "distinct", 0)

default_if_empty ==
  /\ Idle
  /\ Attach(heap, [Generator("default_if_empty") EXCEPT !.val = 0],
            "default_if_empty", 0)

OrderedSequence(xs, kf) == [Obj("ordered", "", xs) EXCEPT !.key = kf]

\* order_by sorting at once and handing back the sorted list's iterator
order_by_eager(K) ==
  /\ Idle
  /\ \E k \in K :
       LET l == to_list(heap, cur)
       IN  Attach(l.h, [Obj("listiter", "sorted", 0)
                          EXCEPT !.items = sort(l.out, <<0, k>>)], "order_by", k)

order_by(K) ==
  /\ Idle
  /\ \E k \in K :
       Attach(heap, OrderedSequence(cur, <<0, k>>), "order_by", k)

\* then_by without its check
AnyObject(o) == TRUE

\* isinstance(ordered_xs, OrderedSequence)
IsOrderedSequence(o) == o.kind = "ordered"

\* then_by's key with the tuple's items swapped
then_by_key_swapped(prev, k) == <<1, <<0, k>>, prev>>

\* lambda x: (ordered_xs.key_from_x(x), key_from_x(x))
then_by_key(prev, k) == <<1, prev, <<0, k>>>>

then_by(K) ==
  /\ Idle
  /\ \E k \in K :
       IF IsOrderedSequence(heap[cur])
       THEN Attach(heap,
                   OrderedSequence(heap[cur].xs, then_by_key(heap[cur].key, k)),
                   "then_by", k)
       ELSE /\ err' = "ValueError"
            /\ hist' = Append(hist, <<"then_by", k>>)
            /\ UNCHANGED <<heap, cur, outs, red>>

reverse ==
  /\ Idle
  /\ LET l == to_list(heap, cur)
     IN  Attach(l.h, [Obj("listiter", "reversed", 0)
                        EXCEPT !.items = reversed(l.out)], "reverse", 0)

\* xs | to_tuple(): tuple(xs), one full traversal of the chain value
to_tuple ==
  /\ err = "" /\ red.pc = "idle"
  /\ Len(outs) < MaxTraversals
  /\ LET l == to_list(heap, cur)
     IN  /\ heap' = l.h
         /\ outs' = Append(outs, l.out)
  /\ UNCHANGED <<cur, hist, err, red>>

-----------------------------------------------------------------------------
(* The terminal reducers.  The call runs the function up to its loop       *)
(* `for x in xs`, which takes iter(xs); ReducerStep is one iteration of    *)
(* the loop: it pulls one element, or StopIteration, and runs the body or  *)
(* what follows the loop.  A frame ends "returned" or "raised".            *)

\* the Presence Marker of a strict form: sentinel = []
sentinel == -2
\* the marker of last_or_default and single_or_default: sentinel = []
inner_sentinel == -3

\* predicate(x); contains hands any the predicate lambda x: x == the_x
Test(f, x) == IF f.fn = "eq" THEN PyEq(x, f.the_x) ELSE Pred(f.fn, x)

Raise(f, exc) == [f EXCEPT !.pc = "raised", !.exc = exc]

\* the message of the strict form's failure
StrictError(strict) ==
  IF strict = "element_at" THEN "IndexError" ELSE "ValueError"

\* the marker recognised by equality: `result == sentinel`
EqualsMarker(v) == PyEq(v, sentinel)

\* the result the strict form got is the marker: `result is sentinel`
IsMarker(v) == PyIs(v, sentinel)

\* return v; under a strict form, its check of what the permissive form
\* returned follows at once
Return(f, v) ==
  IF f.strict # "" /\ IsMarker(v)
  THEN Raise(f, StrictError(f.strict))
  ELSE [f EXCEPT !.pc = "returned", !.result = v]

ReturnBool(f, b) == [f EXCEPT !.pc = "returned", !.truth = b]

any_body(f, e) ==
  IF e.stop THEN ReturnBool(f, FALSE)
  ELSE IF Test(f, e.val) THEN ReturnBool(f, TRUE)
  ELSE f

all_body(f, e) ==
  IF e.stop THEN ReturnBool(f, TRUE)
  ELSE IF ~Test(f, e.val) THEN ReturnBool(f, FALSE)
  ELSE f

\* first_or_default without its test of the predicate
first_or_default_body_any(f, e) ==
  IF e.stop THEN Return(f, f.default_value)
  ELSE Return(f, e.val)

first_or_default_body(f, e) ==
  IF e.stop THEN Return(f, f.default_value)
  ELSE IF Test(f, e.val) THEN Return(f, e.val)
  ELSE f

last_or_default_body(f, e) ==
  IF e.stop
  THEN IF PyIs(f.value, inner_sentinel) THEN Return(f, f.default_value)
       ELSE Return(f, f.value)
  ELSE IF Test(f, e.val) THEN [f EXCEPT !.value = e.val]
  ELSE f

element_at_or_default_body(f, e) ==
  IF e.stop THEN Return(f, f.default_value)
  ELSE IF f.i = f.index THEN Return(f, e.val)
  ELSE [f EXCEPT !.i = @ + 1]

\* single_or_default keeping the first match when a second one comes
single_or_default_body_first(f, e) ==
  IF e.stop
  THEN IF PyIs(f.value, inner_sentinel) THEN Return(f, f.default_value)
       ELSE Return(f, f.value)
  ELSE IF PyIs(f.value, inner_sentinel) THEN [f EXCEPT !.value = e.val]
  ELSE f

\* the loop is over xs | where(predicate)
single_or_default_body(f, e) ==
  IF e.stop
  THEN IF PyIs(f.value, inner_sentinel) THEN Return(f, f.default_value)
       ELSE Return(f, f.value)
  ELSE IF PyIs(f.value, inner_sentinel) THEN [f EXCEPT !.value = e.val]
  ELSE Raise(f, "ValueError")

\* k in d
InDict(d, k) == \E j \in 1..Len(d) : d[j][1] = k

\* d[k] = v
SetItem(d, k, v) ==
  IF \E j \in 1..Len(d) : d[j][1] = k
  THEN [j \in 1..Len(d) |-> IF d[j][1] = k THEN <<k, v>> ELSE d[j]]
  ELSE Append(d, <<k, v>>)

\* to_dict overwriting the entry of a repeated key
to_dict_body_overwrite(f, e) ==
  IF e.stop THEN [f EXCEPT !.pc = "returned"]
  ELSE [f EXCEPT !.calls = @ \o <<<<"key_from_x", e.val>>,
                                  <<"value_from_x", e.val>>>>,
                 !.d = SetItem(@, Key(f.key, e.val), Key(f.vfn, e.val))]

to_dict_body(f, e) ==
  IF e.stop THEN [f EXCEPT !.pc = "returned"]
  ELSE LET k == Key(f.key, e.val)
           v == Key(f.vfn, e.val)
           g == [f EXCEPT !.calls = @ \o <<<<"key_from_x", e.val>>,
                                           <<"value_from_x", e.val>>>>]
       IN  IF InDict(f.d, k) THEN Raise(g, "LookupError")
           ELSE [g EXCEPT !.d = SetItem(@, k, v)]

\* tuple(xs)
tuple_body(f, e) ==
  IF e.stop THEN [f EXCEPT !.pc = "returned"]
  ELSE [f EXCEPT !.out = Append(@, e.val)]

Body(f, e) ==
  CASE f.op = "any" -> any_body(f, e)
    [] f.op = "all" -> all_body(f, e)
    [] f.op = "first_or_default" -> first_or_default_body(f, e)
    [] f.op = "last_or_default" -> last_or_default_body(f, e)
    [] f.op = "element_at_or_default" -> element_at_or_default_body(f, e)
    [] f.op = "single_or_default" -> single_or_default_body(f, e)
    [] f.op = "to_dict" -> to_dict_body(f, e)
    [] f.op = "to_tuple" -> tuple_body(f, e)

\* what an endless loop would grow without bound is cut off at MaxCollect
ReducerStep ==
  /\ red.pc = "loop"
  /\ Len(red.out) < MaxCollect
  /\ red.i < MaxCollect
  /\ LET e == next(heap, red.it)
     IN  /\ heap' = e.h
         /\ red' = IF e.spin THEN red ELSE Body(red, e)
  /\ UNCHANGED <<cur, hist, err, outs>>

CanCall == err = "" /\ outs = <<>> /\ red.pc = "idle"

\* the reducer's frame at its loop over xs
Call(f) ==
  /\ LET s == iter(heap, cur)
     IN  /\ heap' = s.h
         /\ red' = [f EXCEPT !.it = s.it]
  /\ UNCHANGED <<cur, hist, err, outs>>

any ==
  /\ CanCall
  /\ \E p \in Preds : Call([Frame("any") EXCEPT !.fn = p])

all ==
  /\ CanCall
  /\ \E p \in Preds : Call([Frame("all") EXCEPT !.fn = p])

contains ==
  /\ CanCall
  /\ \E x \in RedValues : Call([Frame("any") EXCEPT !.fn = "eq", !.the_x = x])

first_or_default ==
  /\ CanCall
  /\ \E D \in RedValues, p \in Preds :
       Call([Frame("first_or_default") EXCEPT !.default_value = D, !.fn = p])

first ==
  /\ CanCall
  /\ \E p \in Preds :
       Call([Frame("first_or_default") EXCEPT
               !.strict = "first", !.default_value = sentinel, !.fn = p])

last_or_default ==
  /\ CanCall
  /\ \E D \in RedValues, p \in Preds :
       Call([Frame("last_or_default") EXCEPT
               !.default_value = D, !.fn = p, !.value = inner_sentinel])

last ==
  /\ CanCall
  /\ \E p \in Preds :
       Call([Frame("last_or_default") EXCEPT
               !.strict = "last", !.default_value = sentinel, !.fn = p,
               !.value = inner_sentinel])

element_at_or_default ==
  /\ CanCall
  /\ \E n \in -1..MaxCount, D \in RedValues :
       Call([Frame("element_at_or_default") EXCEPT
               !.index = n, !.default_value = D])

element_at ==
  /\ CanCall
  /\ \E n \in -1..MaxCount :
       Call([Frame("element_at_or_default") EXCEPT
               !.strict = "element_at", !.index = n, !.default_value = sentinel])

\* the loop's source is xs | where(predicate), a generator object
CallSingle(f) ==
  /\ heap' = Append(heap, [Generator("where") EXCEPT !.fn = f.fn])
  /\ red' = [f EXCEPT !.it = Len(heap) + 1, !.value = inner_sentinel]
  /\ UNCHANGED <<cur, hist, err, outs>>

single_or_default ==
  /\ CanCall
  /\ \E D \in RedValues, p \in Preds :
       CallSingle([Frame("single_or_default") EXCEPT
                     !.default_value = D, !.fn = p])

single ==
  /\ CanCall
  /\ \E p \in Preds :
       CallSingle([Frame("single_or_default") EXCEPT
                     !.strict = "single", !.default_value = sentinel, !.fn = p])

to_dict ==
  /\ CanCall
  /\ \E k \in DictFns, v \in DictFns :
       Call([Frame("to_dict") EXCEPT !.key = k, !.vfn = v])

\* xs | to_tuple(), run one element at a time, so that a traversal of an
\* unbounded producer is a behaviour that does not end
to_tuple_loop ==
  /\ CanCall
  /\ Call(Frame("to_tuple"))

\* repeat(x, n); n is None when flag is set
repeat(x, n, unbounded) ==
  [Obj("gen", "repeat", 0) EXCEPT !.val = x, !.n = n, !.flag = unbounded]

Start(o) ==
  /\ heap = <<o>>
  /\ cur = 1
  /\ hist = <<>>
  /\ err = ""
  /\ outs = <<>>
  /\ red = NoFrame

Init == \E s \in SeqsUpTo(Values, MaxLen) : Start(List(s))

Next ==
  \/ Len(hist) < MaxChain /\ where
  \/ Len(hist) < MaxChain /\ select
  \/ Len(hist) < MaxChain /\ skip
  \/ Len(hist) < MaxChain /\ take(1..MaxSkip)
  \/ Len(hist) < MaxChain /\ distinct
  \/ Len(hist) < MaxChain /\ default_if_empty
  \/ Len(hist) < MaxChain /\ order_by(ChainKeyFns)
  \/ Len(hist) <= MaxChain /\ then_by(ChainKeyFns)
  \/ Len(hist) < MaxChain /\ reverse
  \/ to_tuple

Spec == Init /\ [][Next]_vars

InitSort == \E s \in SeqsUpTo(Values, MaxSortLen) : Start(List(s))

NextSort ==
  \/ Len(hist) < MaxKeys /\ order_by(KeyFns)
  \/ Len(hist) < MaxKeys /\ then_by(KeyFns)
  \/ to_tuple

SpecSort == InitSort /\ [][NextSort]_vars

InitReduce ==
  \/ \E s \in SeqsUpTo(RedValues, MaxRedLen) : Start(List(s))
  \/ \E x \in RedValues : Start(repeat(x, 0, TRUE))
  \/ \E x \in RedValues, n \in 0..MaxCount : Start(repeat(x, n, FALSE))

NextReduce ==
  \/ hist = <<>> /\ take(0..MaxCount)
  \/ any
  \/ all
  \/ contains
  \/ first_or_default
  \/ first
  \/ last_or_default
  \/ last
  \/ element_at_or_default
  \/ element_at
  \/ single_or_default
  \/ single
  \/ to_dict
  \/ to_tuple_loop
  \/ ReducerStep

SpecReduce == InitReduce /\ [][NextReduce]_vars

-----------------------------------------------------------------------------
(* The properties.                                                         *)

\* the source list
source == heap[1].items

\* the chain is order_by(k1) | then_by(k2) | ... | then_by(kn), none failed
IsKeyChain ==
  /\ err = ""
  /\ Len(hist) >= 1
  /\ hist[1][1] = "order_by"
  /\ \A i \in 2..Len(hist) : hist[i][1] = "then_by"

\* <<k1, ..., kn>>
KeysOf == [i \in 1..Len(hist) |-> hist[i][2]]

\* (k1(x), ..., kn(x)) < (k1(y), ..., kn(y)), the first unequal key deciding
LexLess(ks, x, y) ==
  \E i \in 1..Len(ks) :
    /\ Key(ks[i], x) < Key(ks[i], y)
    /\ \A j \in 1..(i - 1) : Key(ks[j], x) = Key(ks[j], y)

LexEq(ks, x, y) == \A i \in 1..Len(ks) : Key(ks[i], x) = Key(ks[i], y)

\* out is s rearranged so that no element is followed by one of a smaller
\* key tuple, and elements equal on every key keep their order in s
StableSortOf(out, s, ks) ==
  /\ Len(out) = Len(s)
  /\ \E pi \in Permutations(1..Len(s)) :
       /\ \A i \in 1..Len(s) : out[i] = s[pi[i]]
       /\ \A i, j \in 1..Len(s) :
            i < j => /\ ~LexLess(ks, out[j], out[i])
                     /\ LexEq(ks, out[i], out[j]) => pi[i] < pi[j]

\* C1: every traversal of s | order_by(k1) | then_by(k2) | ... | then_by(kn)
\* gives the one stable sort of s under the tuple key (k1(x), ..., kn(x))
\* compared lexicographically.
C1_ThenByIsTupleSort ==
  (IsKeyChain /\ Len(hist) >= 2) =>
    \A t \in 1..Len(outs) : StableSortOf(outs[t], source, KeysOf)

\* [0, 2, 1] | order_by(x % 2) | then_by(-x) is (2, 0, 1): the second key
\* breaks the tie of 0 and 2 against their source order
C1_Witness ==
  /\ source = <<0, 2, 1>>
  /\ Len(hist) = 2
  /\ hist[1] = <<"order_by", "mod2">>
  /\ hist[2] = <<"then_by", "neg">>
  /\ Len(outs) >= 1
  /\ outs[1] = <<2, 0, 1>>

\* C2: every traversal of s | order_by(k) gives a permutation of s with
\* non-decreasing keys in which elements of equal keys keep their order in
\* s; the empty source gives the empty tuple.
C2_OrderByStable ==
  (IsKeyChain /\ Len(hist) = 1) =>
    \A t \in 1..Len(outs) :
      LET out == outs[t]
          k   == hist[1][2]
      IN  /\ Len(out) = Len(source)
          /\ source = <<>> => out = <<>>
          /\ \E pi \in Permutations(1..Len(source)) :
               /\ \A i \in 1..Len(source) : out[i] = source[pi[i]]
               /\ \A i, j \in 1..Len(source) :
                    i < j => /\ Key(k, out[i]) <= Key(k, out[j])
                             /\ Key(k, out[i]) = Key(k, out[j]) => pi[i] < pi[j]

\* [2, 1, 0] | order_by(x % 2) is (2, 0, 1): 2 stays before 0
C2_Witness ==
  /\ source = <<2, 1, 0>>
  /\ Len(hist) = 1
  /\ hist[1] = <<"order_by", "mod2">>
  /\ Len(outs) >= 1
  /\ outs[1] = <<2, 0, 1>>

\* the elements the source list has handed out to its iterators
Pulled == heap[1].i

\* the sorts done so far: the OrderedSequence.__iter__ generators that ran
Sorts(h) ==
  Cardinality({r \in 1..Len(h) :
                 h[r].op = "OrderedSequence.__iter__" /\ h[r].st # "fresh"})

\* the step attaches a lazy operator
Attaches == hist' # hist

\* the operator the step attaches
Attached == hist'[Len(hist')][1]

\* C3, as claimed: the second full traversal of a chain value gives what the
\* first gave.
C3_SecondTraversalSame ==
  Len(outs) >= 2 => outs[2] = outs[1]

\* every operator of the chain is order_by or then_by: the chain value is
\* the source list or an Ordered View of Ordered Views of it
OnlyOrderedViews ==
  \A i \in 1..Len(hist) : hist[i][1] \in {"order_by", "then_by"}

\* C3, amended: the later traversals of the source list, or of an Ordered
\* View over re-iterable sources, give what the first gave; a chain with a
\* generator-based operator or reverse in it is single-pass, and its later
\* traversals give nothing.
C3_ReiterableOnlyIfOrderedViews ==
  \A t \in 2..Len(outs) :
    IF OnlyOrderedViews THEN outs[t] = outs[1] ELSE outs[t] = <<>>

\* an Ordered View traversed twice, with elements
C3_Witness ==
  /\ Len(outs) = 2
  /\ Len(hist) >= 1
  /\ OnlyOrderedViews
  /\ outs[1] # <<>>
  /\ outs[2] = outs[1]

\* C8: then_by on anything but an OrderedSequence raises ValueError at once,
\* pulling nothing and building nothing; on an OrderedSequence it gives a new
\* OrderedSequence over the same source and leaves the old one as it was.
C8_ThenByNeedsOrderedView ==
  [][(Attaches /\ Attached = "then_by") =>
       IF heap[cur].kind = "ordered"
       THEN /\ err' = ""
            /\ cur' # cur
            /\ heap'[cur'].kind = "ordered"
            /\ heap'[cur'].xs = heap[cur].xs
            /\ heap'[cur] = heap[cur]
            /\ Pulled' = Pulled
       ELSE /\ err' = "ValueError"
            /\ heap' = heap
            /\ cur' = cur
            /\ outs' = outs]_vars

\* then_by refused on an Ordered View that went through where
C8_Witness ==
  /\ Len(hist) = 3
  /\ hist[1][1] = "order_by"
  /\ hist[2][1] = "where"
  /\ hist[3][1] = "then_by"
  /\ err = "ValueError"
  /\ Len(source) = 2
  /\ Pulled = 0

\* C9: attaching an operator pulls nothing from the source and sorts
\* nothing; a traversal of an Ordered View sorts again.
C9_AttachmentIsLazy ==
  [][/\ Attaches => (Pulled' = Pulled /\ Sorts(heap') = Sorts(heap))
     /\ (outs' # outs /\ heap[cur].kind = "ordered")
          => Sorts(heap') > Sorts(heap)]_vars

-----------------------------------------------------------------------------
(* The reducers' properties.  Xs is what a finite source gives: the list, *)
(* or repeat(x, n)'s n copies of x, cut by take(n) to its first n.         *)

Direct == hist = <<>>

FiniteSource == heap[1].kind = "list" \/ ~heap[1].flag \/ ~Direct

Base ==
  IF heap[1].kind = "list" THEN heap[1].items
  ELSE [i \in 1..heap[1].n |-> heap[1].val]

Min2(a, b) == IF a < b THEN a ELSE b

Xs ==
  IF Direct THEN Base
  ELSE IF heap[1].kind = "gen" /\ heap[1].flag
       THEN [i \in 1..hist[1][2] |-> heap[1].val]
       ELSE SubSeq(Base, 1, Min2(hist[1][2], Len(Base)))

Ended == red.pc \in {"returned", "raised"}

\* the places of the elements that satisfy the reducer's predicate
Matches == {i \in 1..Len(Xs) : Test(red, Xs[i])}

Least(S) == CHOOSE i \in S : \A j \in S : i <= j
Greatest(S) == CHOOSE i \in S : \A j \in S : j <= i

\* C4, as claimed: first_or_default returns D if and only if no element
\* satisfies p, and the first element that does when there is one.
C4_DefaultIffNoMatch ==
  (red.op = "first_or_default" /\ red.strict = "" /\ red.pc = "returned"
     /\ FiniteSource) =>
    /\ (red.result = red.default_value) <=> (Matches = {})
    /\ Matches # {} => red.result = Xs[Least(Matches)]

\* C4, amended: first_or_default returns D when no element satisfies p, and
\* the first element that does when there is one, which may be D itself.
C4_DefaultIfNoMatchElseFirst ==
  (red.op = "first_or_default" /\ red.strict = "" /\ Ended /\ FiniteSource) =>
    /\ red.pc = "returned"
    /\ Matches = {} => red.result = red.default_value
    /\ Matches # {} => red.result = Xs[Least(Matches)]

\* the first match is not the first element, and is not the default
C4_Witness ==
  /\ red.op = "first_or_default" /\ red.strict = "" /\ red.pc = "returned"
  /\ FiniteSource
  /\ Matches # {}
  /\ Least(Matches) > 1
  /\ red.result # red.default_value
  /\ red.default_value \in {Xs[i] : i \in 1..Len(Xs)}

\* the places that qualify for first, last and element_at
Qualifying ==
  IF red.op = "element_at_or_default"
  THEN {i \in 1..Len(Xs) : i = red.index + 1}
  ELSE Matches

\* the place the reducer picks among the qualifying ones
Picked ==
  IF red.op = "last_or_default" THEN Greatest(Qualifying)
  ELSE Least(Qualifying)

\* C5: the strict first, last and element_at fail, with ValueError and
\* IndexError, exactly when nothing qualifies, and otherwise return the
\* element the permissive form returns, whatever it is; the permissive form
\* returns its default exactly when nothing qualifies.
C5_StrictFailsOnlyWhenNothingQualifies ==
  (red.op \in {"first_or_default", "last_or_default", "element_at_or_default"}
     /\ Ended /\ FiniteSource) =>
    IF Qualifying # {}
    THEN red.pc = "returned" /\ red.result = Xs[Picked]
    ELSE IF red.strict = ""
         THEN red.pc = "returned" /\ red.result = red.default_value
         ELSE /\ red.pc = "raised"
              /\ red.exc = (IF red.strict = "element_at" THEN "IndexError"
                            ELSE "ValueError")

\* strict first returns an element that is an empty list
C5_Witness ==
  /\ red.op = "first_or_default" /\ red.strict = "first"
  /\ red.pc = "returned"
  /\ heap[1].kind = "list" /\ Direct
  /\ red.result = -1
  /\ PyEq(red.result, sentinel)

\* C6: single_or_default returns D when nothing satisfies p, the element
\* when exactly one does, and fails when two or more do; single fails as
\* well when nothing does.
C6_SingleCardinality ==
  (red.op = "single_or_default" /\ Ended /\ FiniteSource) =>
    CASE Cardinality(Matches) = 0 ->
           IF red.strict = ""
           THEN red.pc = "returned" /\ red.result = red.default_value
           ELSE red.pc = "raised" /\ red.exc = "ValueError"
      [] Cardinality(Matches) = 1 ->
           red.pc = "returned" /\ red.result = Xs[Least(Matches)]
      [] OTHER ->
           red.pc = "raised" /\ red.exc = "ValueError"

\* single_or_default fails on three elements of which two match
C6_Witness ==
  /\ red.op = "single_or_default" /\ red.strict = ""
  /\ red.pc = "raised"
  /\ heap[1].kind = "list" /\ Direct
  /\ Len(Xs) = 3
  /\ Cardinality(Matches) = 2

\* the places whose key repeats the key of an earlier place
Repeats ==
  {j \in 1..Len(Xs) :
     \E i \in 1..(j - 1) : Key(red.key, Xs[i]) = Key(red.key, Xs[j])}

\* the entries, and the calls of key_fn and value_fn, of the first n elements
Entries(n) == [i \in 1..n |-> <<Key(red.key, Xs[i]), Key(red.vfn, Xs[i])>>]

CallsOf(n) ==
  [c \in 1..(2 * n) |->
     IF c % 2 = 1 THEN <<"key_from_x", Xs[(c + 1) \div 2]>>
     ELSE <<"value_from_x", Xs[c \div 2]>>]

\* C7: to_dict fails exactly when a key repeats, on reaching the first
\* element whose key does, with every earlier entry kept and no later
\* element pulled; without a repeat it returns one entry per element; both
\* functions are called once per scanned element, in source order.
C7_ToDictFailsOnFirstRepeat ==
  (red.op = "to_dict" /\ Ended /\ FiniteSource) =>
    IF Repeats = {}
    THEN /\ red.pc = "returned"
         /\ red.d = Entries(Len(Xs))
         /\ red.calls = CallsOf(Len(Xs))
    ELSE /\ red.pc = "raised" /\ red.exc = "LookupError"
         /\ red.d = Entries(Least(Repeats) - 1)
         /\ red.calls = CallsOf(Least(Repeats))
         /\ (heap[1].kind = "list" /\ Direct) => Pulled = Least(Repeats)

\* the second of three elements repeats the first one's key
C7_Witness ==
  /\ red.op = "to_dict" /\ red.pc = "raised"
  /\ heap[1].kind = "list" /\ Direct
  /\ Len(Xs) = 3
  /\ Least(Repeats) = 2
  /\ Pulled = 2
  /\ Len(red.d) = 1

\* the source is repeat(x) with no count
UnboundedSource == heap[1].kind = "gen" /\ heap[1].flag

\* the reducer is attached to repeat(x) itself
UnboundedDirect == UnboundedSource /\ Direct

EndsOn(f, x) ==
  CASE f.op \in {"any", "first_or_default", "single_or_default"} -> Test(f, x)
    [] f.op = "all" -> ~Test(f, x)
    [] f.op = "element_at_or_default" -> f.index >= 0
    [] f.op = "to_dict" -> TRUE
    [] OTHER -> FALSE

\* what the reducer ended with is what the element x decides
EndedWith(f, x) ==
  CASE f.op = "any" -> f.pc = "returned" /\ f.truth
    [] f.op = "all" -> f.pc = "returned" /\ ~f.truth
    [] f.op \in {"first_or_default", "element_at_or_default"} ->
         f.pc = "returned" /\ f.result = x
    [] f.op = "single_or_default" -> f.pc = "raised" /\ f.exc = "ValueError"
    [] f.op = "to_dict" -> f.pc = "raised" /\ f.exc = "LookupError"
    [] OTHER -> FALSE

\* the reducer is one that ends: x decides it, or take(n) cuts the source
WillEnd ==
  \/ UnboundedDirect /\ EndsOn(red, heap[1].val)
  \/ UnboundedSource /\ ~Direct /\ red.op = "to_tuple"

\* a bound on the iterations the loop of such a reducer has left
Remaining(f) ==
  CASE f.op = "element_at_or_default" -> f.index - f.i + 1
    [] f.op = "single_or_default" ->
         IF PyIs(f.value, inner_sentinel) THEN 2 ELSE 1
    [] f.op = "to_dict" -> IF f.d = <<>> THEN 2 ELSE 1
    [] f.op = "to_tuple" -> hist[1][2] - Len(f.out) + 1
    [] OTHER -> 1

C10_Safe ==
  /\ (UnboundedDirect /\ Ended)
       => (EndsOn(red, heap[1].val) /\ EndedWith(red, heap[1].val))
  /\ (UnboundedSource /\ ~Direct /\ red.op = "to_tuple" /\ red.pc = "returned")
       => red.out = [i \in 1..hist[1][2] |-> heap[1].val]
  /\ (WillEnd /\ red.pc = "loop")
       => /\ Remaining(red) >= 1
          /\ Len(red.out) < MaxCollect
          /\ red.i < MaxCollect

\* an iteration of the loop of a reducer that ends either ends it or leaves
\* it fewer iterations
C10_Step ==
  (WillEnd /\ red.pc = "loop" /\ red' # red) =>
     \/ red'.pc \in {"returned", "raised"}
     \/ red'.pc = "loop" /\ Remaining(red') < Remaining(red)

====
